---- MODULE Spec2Model ----
(***************************************************************************)
(* ncompare.core: the comparison pass over two NetCDF files (compare,      *)
(* run_through_comparisons, compare_two_nc_files), the random-sample       *)
(* comparator (compare_multiple_random_values, _match_random_value) and    *)
(* the side-by-side printing of variable properties.                       *)
(*                                                                         *)
(* Conventions of the model                                                *)
(*  - a Python str is a "cell": a sequence of text tokens, "" being <<>>;  *)
(*    str(x) of a number is its digit token, so str() is a real conversion *)
(*  - the Outputter (ncompare.printing) and the sequence operations        *)
(*    (ncompare.sequence_operations) are outside src/: they are modelled   *)
(*    from the specification (sections 4.1 and 4.2)                        *)
(*  - `printed` is the live stream written by out.print, one token per     *)
(*    call (a leading "\n" of a message is not kept), `rows` is the row    *)
(*    log written by out.side_by_side                                      *)
(*  - `handles` is the set of data-source handles the program has opened   *)
(*    and not closed itself                                                *)
(***************************************************************************)
EXTENDS Integers, Sequences, FiniteSets, TLC

VARIABLES
    nc_a, nc_b,                \* the two data sources (contents of the files)
    comparison_var_group,      \* "" when not supplied
    comparison_var_name,       \* "" when not supplied
    show_chunks, show_attributes,
    pc,                        \* position of the running operation
    exc,                       \* the exception that ended the operation, if any
    printed,                   \* live stream of out.print
    rows,                      \* row log of out.side_by_side
    handles,                   \* handles opened and not closed
    dim_attempts,              \* per source, the attempts of _get_dims
    lookup_failed,             \* the targeted lookup that failed, "" if none
    sampler,                   \* state of compare_multiple_random_values
    totals,                    \* num_var_diffs of compare_two_nc_files
    exported,                  \* exports requested / written by compare()
    v_a, v_b                   \* arguments of _print_var_properties_side_by_side

vars == <<nc_a, nc_b, comparison_var_group, comparison_var_name, show_chunks,
          show_attributes, pc, exc, printed, rows, handles, dim_attempts,
          lookup_failed, sampler, totals, exported, v_a, v_b>>

-----------------------------------------------------------------------------
(* Bounded universe of names and values *)

Groups == {"g1", "g2"}
VarNames == {"t", "varname"}
AttrKeys == {"flag_values", "units"}

\* Python's order of str, restricted to the names of the universe ("" first).
NameOrder ==
    <<"", "flag_values", "g1", "g2", "lat=5", "t", "time=10", "time=12", "units", "varname">>

\* sorted(S), for S a set of names
Sorted(S) == SelectSeq(NameOrder, LAMBDA x : x \in S)

\* the elements of a sequence, as a set
Range(s) == {s[i] : i \in 1..Len(s)}

\* every enumeration of a set: the orders in which Python may iterate a set
Orders(S) == {s \in [1..Cardinality(S) -> S] : Range(s) = S}

\* s restricted to the members of S: iteration of S in the hash order s
Induced(s, S) == SelectSeq(s, LAMBDA x : x \in S)

\* str as a cell
Cell(s) == IF s = "" THEN <<>> ELSE <<s>>

Digits == <<"0", "1", "2", "3", "4", "5", "6", "7", "8", "9">>

\* str(n) of a small non-negative integer
StrOfInt(n) == <<Digits[n + 1]>>

\* length of the longest list-valued attribute of the universe
MaxListLen == 6

StrAttr(s) == [kind |-> "str", s |-> s, items |-> <<>>]
ListAttr(l) == [kind |-> "list", s |-> "", items |-> l]

\* list values: two long ones that differ only in their last element, and
\* a short one
ListValues ==
    { ListAttr([i \in 1..MaxListLen |-> IF i = MaxListLen THEN last ELSE i])
        : last \in {MaxListLen, MaxListLen + 1} }
    \cup {ListAttr(<<1, 2>>)}

AttrValuesOf(k) == IF k = "units" THEN {StrAttr("m"), StrAttr("km")} ELSE ListValues

\* the attribute mappings of a variable: {name: getattr(the_variable, name)}
AttrMaps ==
    UNION { {m \in [K -> UNION {AttrValuesOf(k) : k \in K}] :
                \A k \in K : m[k] \in AttrValuesOf(k)} : K \in SUBSET AttrKeys }

\* label of an attribute row, f"{key}:"
WithColon(k) ==
    CASE k = "units" -> "units:"
      [] k = "flag_values" -> "flag_values:"
      [] OTHER -> ":"

-----------------------------------------------------------------------------
(* Outputter and sequence operations, modelled from the specification *)

\* one row of the row log
Row(label, a, b, highlight_diff, dash_line) ==
    [label |-> label, a |-> a, b |-> b, hl |-> highlight_diff, dash |-> dash_line]

\* out.side_by_side: the row is appended to the row log
side_by_side(log, label, a, b, highlight_diff, dash_line) ==
    Append(log, Row(label, a, b, highlight_diff, dash_line))

DashRow == Row("-", <<"-">>, <<"-">>, FALSE, TRUE)

\* count_diffs(A, B) -> (left, right, both)
count_diffs(A, B) ==
    [left |-> Cardinality(Range(A) \ Range(B)),
     right |-> Cardinality(Range(B) \ Range(A)),
     both |-> Cardinality(Range(A) \cap Range(B))]

\* common_elements(A, B): the sorted union, each key paired with "" on the
\* side that lacks it
common_elements(A, B) ==
    LET union == Sorted(A \cup B)
    IN  [i \in 1..Len(union) |->
            [index |-> i - 1,
             a |-> IF union[i] \in A THEN union[i] ELSE "",
             b |-> IF union[i] \in B THEN union[i] ELSE ""]]

\* out.lists_diff(list_a, list_b): one row per key of the union, then the
\* counts of shared and non-shared keys
lists_diff(log, A, B) ==
    LET pairs == common_elements(Range(A), Range(B))
        body == [i \in 1..Len(pairs) |->
                    Row("", Cell(pairs[i].a), Cell(pairs[i].b), TRUE, FALSE)]
        c == count_diffs(A, B)
    IN  log \o body
            \o <<Row("Number of non-shared items:", StrOfInt(c.left), StrOfInt(c.right), FALSE, FALSE),
                 Row("Number of shared items:", StrOfInt(c.both), StrOfInt(c.both), FALSE, FALSE)>>

-----------------------------------------------------------------------------
(* Variable properties: _var_properties, _get_attribute_value_as_str,      *)
(* _print_var_properties_side_by_side                                      *)

\* attributes of VarProperties: None, or a mapping
NoAttributes == [none |-> TRUE, map |-> <<>>]
Attributes(m) == [none |-> FALSE, map |-> m]

\* a netCDF4.Variable as the model keeps it; scale_factor 0 when not set
Variable(dtype, shape, chunking, attrs, scale_factor, values) ==
    [dtype |-> dtype, shape |-> shape, chunking |-> chunking, attrs |-> attrs,
     scale_factor |-> scale_factor, values |-> values]

\* VarProperties(varname, variable, dtype, shape, chunking, attributes); the
\* variable is kept by what is read of it later, its scale_factor (0: None)
VarProperties(varname, scale_factor, dtype, shape, chunking, attributes) ==
    [varname |-> varname, scale_factor |-> scale_factor, dtype |-> dtype,
     shape |-> shape, chunking |-> chunking, attributes |-> attributes]

\* _var_properties(dataset, varname, groupname); groupname "" is the root
_var_properties(dataset, varname, groupname) ==
    IF varname # ""
    THEN LET the_variable ==
                 IF groupname # ""
                 THEN dataset.groups[groupname][varname]
                 ELSE dataset.variables[varname]
         IN  VarProperties(varname, the_variable.scale_factor,
                           Cell(the_variable.dtype), Cell(the_variable.shape),
                           Cell(the_variable.chunking), Attributes(the_variable.attrs))
    ELSE VarProperties("", 0, <<>>, <<>>, <<>>, NoAttributes)

\* number of elements of an iterable attribute that are displayed
DisplayedItems == 5

\* attr[:5]
Head5(l) == SubSeq(l, 1, IF Len(l) < DisplayedItems THEN Len(l) ELSE DisplayedItems)

\* _get_attribute_value_as_str: AttributeError when the attributes are None
\* (None has no .get), otherwise the value as a cell
_get_attribute_value_as_str(varprops, attribute_key) ==
    IF varprops.attributes.none
    THEN [raised |-> "AttributeError", value |-> <<>>]
    ELSE IF attribute_key \in DOMAIN varprops.attributes.map
         THEN LET attr == varprops.attributes.map[attribute_key]
              IN  IF attr.kind = "list"
                  THEN [raised |-> "",
                        value |-> <<"[">> \o [i \in 1..Len(Head5(attr.items)) |->
                                                  StrOfInt(Head5(attr.items)[i])[1]]
                                           \o <<", ...]">>]
                  ELSE [raised |-> "", value |-> Cell(attr.s)]
         ELSE [raised |-> "", value |-> <<>>]

\* the names of the attributes, [] when the mapping is None or empty
AttrNames(varprops) ==
    IF varprops.attributes.none THEN {} ELSE DOMAIN varprops.attributes.map

\* one round of the attribute loop: attr_a is read, then attr_b, then the
\* row is printed
AttributeRow(prev, attr_a_key, attr_b_key, attr_a, attr_b) ==
    IF prev.raised # ""
    THEN prev
    ELSE IF attr_a.raised # ""
    THEN [rows |-> prev.rows, raised |-> attr_a.raised]
    ELSE IF attr_b.raised # ""
    THEN [rows |-> prev.rows, raised |-> attr_b.raised]
    ELSE [rows |-> side_by_side(prev.rows,
                                WithColon(IF attr_a_key # "" THEN attr_a_key ELSE attr_b_key),
                                attr_a.value, attr_b.value, TRUE, FALSE),
          raised |-> ""]

\* the loop over common_elements(attrs_a_names, attrs_b_names): one row per
\* pair, until a value cannot be read; step[i] is the state after i pairs
AttributeRows(log, va, vb, pairs) ==
    LET step[i \in 0..Len(pairs)] ==
            IF i = 0
            THEN [rows |-> log, raised |-> ""]
            ELSE AttributeRow(step[i - 1], pairs[i].a, pairs[i].b,
                              _get_attribute_value_as_str(va, pairs[i].a),
                              _get_attribute_value_as_str(vb, pairs[i].b))
    IN  step[Len(pairs)]

\* the chunking row emitted whatever show_chunks is
ChunkRows_always(log, va, vb, chunks) ==
    side_by_side(log, "chunksize:", va.chunking, vb.chunking, TRUE, FALSE)

\* the chunking row, emitted when show_chunks
ChunkRows(log, va, vb, chunks) ==
    IF chunks
    THEN side_by_side(log, "chunksize:", va.chunking, vb.chunking, TRUE, FALSE)
    ELSE log

\* the scale factor row, emitted when a side has a non-zero scale factor;
\* it is reached when the rows before it raised nothing
ScaleFactorRows(prev, va, vb) ==
    LET sf_a == IF va.scale_factor # 0 THEN StrOfInt(va.scale_factor) ELSE <<" ">>
        sf_b == IF vb.scale_factor # 0 THEN StrOfInt(vb.scale_factor) ELSE <<" ">>
    IN  IF prev.raised # ""
        THEN prev
        ELSE IF sf_a # <<" ">> \/ sf_b # <<" ">>
        THEN [rows |-> side_by_side(prev.rows, "sf:", sf_a, sf_b, TRUE, FALSE), raised |-> ""]
        ELSE prev

\* the attribute rows, emitted when show_attributes
AttributesRows(log, va, vb, attributes) ==
    IF attributes
    THEN AttributeRows(log, va, vb, common_elements(AttrNames(va), AttrNames(vb)))
    ELSE [rows |-> log, raised |-> ""]

\* _print_var_properties_side_by_side: the row log after the call, and the
\* exception that ended it ("" when it returned)
_print_var_properties_side_by_side(log, va, vb, chunks, attributes) ==
    LET r1 == side_by_side(log, "-----VARIABLE-----:", Cell(va.varname), Cell(vb.varname), FALSE, FALSE)
        r2 == side_by_side(r1, "dtype:", va.dtype, vb.dtype, TRUE, FALSE)
        r3 == side_by_side(r2, "shape:", va.shape, vb.shape, TRUE, FALSE)
        r4 == ChunkRows(r3, va, vb, chunks)
    IN  ScaleFactorRows(AttributesRows(r4, va, vb, attributes), va, vb)

-----------------------------------------------------------------------------
(* Sampled values and one trial: _match_random_value                       *)

\* a sampled value: NaN, or a number in units of the default threshold 1e-6
NaN == [nan |-> TRUE, v |-> 0]
Num(n) == [nan |-> FALSE, v |-> n]

\* the values a variable may hold
Values == {NaN} \cup {Num(n) : n \in {0, 1, 3}}

\* thresh: float = 1e-6, the unit of the sampled numbers
DefaultThresh == 1

Abs(x) == IF x < 0 THEN -x ELSE x

\* the lines printed when the difference exceeds the threshold
MismatchLines ==
    <<"", "Difference exceeded threshold", "var shape:", "indices:", "value a:", "value b:">>

\* _match_random_value with "abs(value_b - value_a) >= thresh" for the test
_match_random_value_ge(nc_var_a, nc_var_b, rand_index, thresh) ==
    IF rand_index > Len(nc_var_b.values)
    THEN [raised |-> "IndexError", result |-> "", lines |-> <<>>,
          value_a |-> nc_var_a.values[rand_index], value_b |-> NaN]
    ELSE LET value_a == nc_var_a.values[rand_index]
             value_b == nc_var_b.values[rand_index]
             out(result, lines) ==
                 [raised |-> "", result |-> result, lines |-> lines,
                  value_a |-> value_a, value_b |-> value_b]
         IN  IF value_a.nan \/ value_b.nan
             THEN out("None", <<>>)
             ELSE IF Abs(value_b.v - value_a.v) >= thresh
             THEN out("False", MismatchLines)
             ELSE out("True", <<>>)

\* _match_random_value for the index drawn (1-based into the flattened
\* values): IndexError when nc_var_b has no value there, otherwise the
\* result ("None", "False", "True") and the lines printed
_match_random_value(nc_var_a, nc_var_b, rand_index, thresh) ==
    IF rand_index > Len(nc_var_b.values)
    THEN [raised |-> "IndexError", result |-> "", lines |-> <<>>,
          value_a |-> nc_var_a.values[rand_index], value_b |-> NaN]
    ELSE LET value_a == nc_var_a.values[rand_index]
             value_b == nc_var_b.values[rand_index]
             out(result, lines) ==
                 [raised |-> "", result |-> result, lines |-> lines,
                  value_a |-> value_a, value_b |-> value_b]
         IN  IF value_a.nan \/ value_b.nan
             THEN out("None", <<>>)
             ELSE IF Abs(value_b.v - value_a.v) > thresh
             THEN out("False", MismatchLines)
             ELSE out("True", <<>>)

\* print_char with None missing from the dictionary
print_char_no_none(match_result) ==
    IF match_result = "True" THEN "." ELSE "x"

\* {True: ".", None: "n"}.get(match_result, "x")
print_char(match_result) ==
    CASE match_result = "True" -> "."
      [] match_result = "None" -> "n"
      [] OTHER -> "x"

\* the final message of compare_multiple_random_values
Message(num_mismatches) ==
    IF num_mismatches = 0 THEN " No mismatches." ELSE " mismatches, out of samples."

-----------------------------------------------------------------------------
(* Data sources                                                            *)

\* the variable of the given name in source "a" or "b": the two files hold
\* different metadata and values for the same name
TheVariable(side, name) ==
    CASE side = "a" /\ name = "t" ->
            Variable("float32", "(3,)", "contiguous",
                     [k \in {"units"} |-> StrAttr("m")], 2,
                     <<Num(0), Num(1), Num(2)>>)
      [] side = "b" /\ name = "t" ->
            Variable("float64", "(3,)", "[3]",
                     [k \in AttrKeys |-> IF k = "units" THEN StrAttr("km") ELSE ListAttr(<<1, 2>>)], 0,
                     <<Num(0), Num(1), Num(2)>>)
      [] side = "a" ->
            Variable("float32", "(1, 3)", "contiguous", <<>>, 0,
                     <<Num(0), NaN, Num(1)>>)
      [] OTHER ->
            Variable("float32", "(1, 3)", "contiguous",
                     [k \in {"units"} |-> StrAttr("m")], 0,
                     <<Num(0), Num(1), Num(3)>>)

\* a netCDF4.Dataset: its root variables and its groups with their variables
Dataset(side, root, layout) ==
    [variables |-> [n \in root |-> TheVariable(side, n)],
     groups |-> [g \in DOMAIN layout |-> [n \in layout[g] |-> TheVariable(side, n)]]]

\* the variable sets a group may hold
GroupVarSets == {{"t"}, VarNames}

\* the groups of a file: any subset of Groups, each with one of the variable sets
Layouts == UNION { [G -> GroupVarSets] : G \in SUBSET Groups }

\* the root variable sets of a file
RootVarSets == {{}, VarNames}

Datasets(side) == {Dataset(side, r, l) : r \in RootVarSets, l \in Layouts}

-----------------------------------------------------------------------------
(* compare_two_nc_files and _process_variables                             *)

\* one round of the loop over the common variables
VariableRound(prev, a, b, variable, group_name, opt) ==
    IF prev.raised # ""
    THEN prev
    ELSE _print_var_properties_side_by_side(
             prev.rows,
             _var_properties(a, variable, group_name),
             _var_properties(b, variable, group_name),
             opt.show_chunks, opt.show_attributes)

\* the loop over the variables common to both sources, in iteration order;
\* step[i] is the state after i variables
VariableLoop(log, a, b, names, group_name, opt) ==
    LET step[i \in 0..Len(names)] ==
            IF i = 0
            THEN [rows |-> log, raised |-> ""]
            ELSE VariableRound(step[i - 1], a, b, names[i], group_name, opt)
    IN  step[Len(names)]

\* num_var_diffs[...] = the counts of one group, instead of +=
AddDiffs_assign(num_var_diffs, c) ==
    [left |-> c.left, right |-> c.right, both |-> c.both]

\* num_var_diffs[...] += the counts of one group
AddDiffs(num_var_diffs, c) ==
    [left |-> num_var_diffs.left + c.left,
     right |-> num_var_diffs.right + c.right,
     both |-> num_var_diffs.both + c.both]

\* the result of a loop, with the counts so far
WithDiffs(loop, num_var_diffs) ==
    [rows |-> loop.rows, raised |-> loop.raised, diffs |-> num_var_diffs]

\* _process_variables: the counts of the group are added to num_var_diffs and
\* the properties of its common variables are printed
_process_variables(log, a, b, group_name, num_var_diffs, opt) ==
    LET vars_a_sorted == Sorted(DOMAIN a.groups[group_name])
        vars_b_sorted == Sorted(DOMAIN b.groups[group_name])
        r1 == side_by_side(log, "num variables in group:",
                           StrOfInt(Len(vars_a_sorted)), StrOfInt(Len(vars_b_sorted)), TRUE, FALSE)
    IN  WithDiffs(VariableLoop(Append(r1, DashRow), a, b,
                               Induced(opt.var_order, Range(vars_a_sorted) \cap Range(vars_b_sorted)),
                               group_name, opt),
                  AddDiffs(num_var_diffs, count_diffs(vars_a_sorted, vars_b_sorted)))

\* f"GROUP #{group_name:02}"
GroupLabel(g) == IF g = "g1" THEN "GROUP #g1" ELSE "GROUP #g2"

\* one round of the loop over the common groups.  Formatting a str with the
\* specification "02" raises ValueError before Python 3.10 and pads the name
\* from 3.10 on: opt.str_zero_pad tells which interpreter runs.
GroupRound(prev, a, b, group_name, opt) ==
    LET r1 == side_by_side(prev.rows, " ", <<" ">>, <<" ">>, FALSE, FALSE)
        r2 == side_by_side(r1, GroupLabel(group_name), Cell(group_name), Cell(group_name), FALSE, TRUE)
    IN  IF prev.raised # ""
        THEN prev
        ELSE IF ~opt.str_zero_pad
        THEN [rows |-> r1, raised |-> "ValueError", diffs |-> prev.diffs]
        ELSE _process_variables(r2, a, b, group_name, prev.diffs, opt)

\* the loop over the groups common to both sources; step[i] is the state
\* after i groups
GroupLoop(log, a, b, group_names, num_var_diffs, opt) ==
    LET step[i \in 0..Len(group_names)] ==
            IF i = 0
            THEN [rows |-> log, raised |-> "", diffs |-> num_var_diffs]
            ELSE GroupRound(step[i - 1], a, b, group_names[i], opt)
    IN  step[Len(group_names)]

\* num_var_diffs before anything is counted
NoTotals == [left |-> 0, right |-> 0, both |-> 0, emitted |-> FALSE]

\* the counts of the root group
RootDiffs(vars_a_set, vars_b_set) ==
    LET common_vars == vars_a_set \cap vars_b_set
    IN  [both |-> Cardinality(common_vars),
         left |-> Cardinality(vars_a_set \ common_vars),
         right |-> Cardinality(vars_b_set \ common_vars)]

\* lines 267-271: the totals are emitted and returned, when nothing raised
EmitTotals(grps) ==
    IF grps.raised # ""
    THEN [rows |-> grps.rows, raised |-> grps.raised, totals |-> NoTotals]
    ELSE [rows |-> Append(grps.rows, DashRow)
                     \o <<Row("Total number of shared items:",
                              StrOfInt(grps.diffs.both), StrOfInt(grps.diffs.both), FALSE, FALSE),
                          Row("Total number of non-shared items:",
                              StrOfInt(grps.diffs.left), StrOfInt(grps.diffs.right), FALSE, FALSE)>>,
          raised |-> "",
          totals |-> [left |-> grps.diffs.left, right |-> grps.diffs.right,
                      both |-> grps.diffs.both, emitted |-> TRUE]]

\* lines 253-265: the groups common to both files, after the root variables
CommonGroups(root, a, b, num_var_diffs, opt) ==
    IF root.raised # ""
    THEN WithDiffs(root, num_var_diffs)
    ELSE GroupLoop(root.rows, a, b,
                   Induced(opt.group_order, DOMAIN a.groups \cap DOMAIN b.groups),
                   num_var_diffs, opt)

\* compare_two_nc_files: the row log after the call, the exception that ended
\* it ("" when it returned) and the totals it emitted
compare_two_nc_files(log, a, b, opt) ==
    LET r0 == side_by_side(log, " ", <<"File A">>, <<"File B">>, FALSE, FALSE)
        r1 == Append(side_by_side(r0, "All Variables", <<" ">>, <<" ">>, FALSE, FALSE), DashRow)
        vars_a_set == DOMAIN a.variables
        vars_b_set == DOMAIN b.variables
        r2 == Append(side_by_side(r1, "num variables in root group:",
                                  StrOfInt(Cardinality(vars_a_set)),
                                  StrOfInt(Cardinality(vars_b_set)), FALSE, FALSE),
                     DashRow)
    IN  EmitTotals(
            CommonGroups(
                VariableLoop(r2, a, b, Induced(opt.var_order, vars_a_set \cap vars_b_set), "", opt),
                a, b, RootDiffs(vars_a_set, vars_b_set), opt))

-----------------------------------------------------------------------------
(* Fetching dimensions, groups and variables                               *)

\* a data-source handle, named by the operation that opened it
Handle(op, file) == [op |-> op, file |-> file]

\* leaving the with block of an operation closes the handles it opened
WithExit(hs, op) == {h \in hs : h.op # op}

\* what one xr.open_dataset of _get_dims can do: succeed, or fail with a
\* ValueError whose message names decode_times, another ValueError, or an
\* error of another type
DimOutcomes == {"ok", "ValueError decode_times", "ValueError", "OSError"}

ErrType(outcome) == IF outcome = "OSError" THEN "OSError" ELSE "ValueError"

\* one call of __get_dim_list
Attempt(decode_times, outcome) == [decode_times |-> decode_times, outcome |-> outcome]

\* _get_dims retrying after any ValueError, whatever its message
_get_dims_any_value_error(first, second) ==
    IF first = "ok"
    THEN [attempts |-> <<Attempt(TRUE, first)>>, raised |-> ""]
    ELSE IF ErrType(first) = "ValueError"
    THEN [attempts |-> <<Attempt(TRUE, first), Attempt(FALSE, second)>>,
          raised |-> IF second = "ok" THEN "" ELSE ErrType(second)]
    ELSE [attempts |-> <<Attempt(TRUE, first)>>, raised |-> ErrType(first)]

\* _get_dims, given what the first and (if made) the second fetch do: the
\* attempts made, in order, and the exception that leaves the function
_get_dims(first, second) ==
    IF first = "ok"
    THEN [attempts |-> <<Attempt(TRUE, first)>>, raised |-> ""]
    ELSE IF ErrType(first) = "ValueError"
    THEN IF first = "ValueError decode_times"
         THEN [attempts |-> <<Attempt(TRUE, first), Attempt(FALSE, second)>>,
               raised |-> IF second = "ok" THEN "" ELSE ErrType(second)]
         ELSE [attempts |-> <<Attempt(TRUE, first)>>, raised |-> "ValueError"]
    ELSE [attempts |-> <<Attempt(TRUE, first)>>, raised |-> ErrType(first)]

\* the attempts log of the running _get_dims; it is kept while the dimensions
\* phase runs
NoAttempts == [file |-> "", attempts |-> <<>>]

\* list(dataset.dims.items()) of the two files
DimsOf(file) == IF file = "a" THEN <<"lat=5", "time=10">> ELSE <<"lat=5", "time=12">>

\* _get_groups: the group names; the handle is opened and closed by with
_get_groups(dataset, file, hs) ==
    [groups_list |-> Sorted(DOMAIN dataset.groups),
     handles |-> WithExit(hs \cup {Handle("_get_groups", file)}, "_get_groups")]

\* _get_vars: OSError when the file has no such group, otherwise the sorted
\* variable names; the dataset it opens is not closed
_get_vars(dataset, file, groupname) ==
    IF groupname \notin DOMAIN dataset.groups
    THEN [raised |-> "OSError", vlist |-> <<>>, opened |-> {},
          lines |-> <<"Error occurred when attempting to open group within">>]
    ELSE [raised |-> "", vlist |-> Sorted(DOMAIN dataset.groups[groupname]),
          opened |-> {Handle("_get_vars", file)}, lines |-> <<>>]

\* _print_sample_values: OSError when the file has no such group, KeyError
\* when the group has no such variable, otherwise values[0, :] is printed;
\* the dataset it opens is not closed
_print_sample_values(dataset, file, groupname, varname) ==
    IF groupname \notin DOMAIN dataset.groups
    THEN [raised |-> "OSError", opened |-> {}, lines |-> <<>>]
    ELSE IF varname \notin DOMAIN dataset.groups[groupname]
    THEN [raised |-> "KeyError", opened |-> {Handle("_print_sample_values", file)}, lines |-> <<>>]
    ELSE [raised |-> "", opened |-> {Handle("_print_sample_values", file)},
          lines |-> <<"values[0, :]">>]

\* ds.varname: the attribute of the dataset that compare_multiple_random_values
\* reads, which is the variable called "varname"
ds_varname == "varname"

\* the variable handed to _match_random_value
NcVar(dataset, groupname, name) ==
    [name |-> name, values |-> dataset.groups[groupname][name].values]

\* num_comparisons: int = 100, scaled down
PassTrials == 2

IdleSampler ==
    [nc_var_a |-> [name |-> "", values |-> <<>>], nc_var_b |-> [name |-> "", values |-> <<>>],
     num_comparisons |-> 0, thresh |-> DefaultThresh, trials |-> <<>>,
     num_mismatches |-> 0, reported |-> <<>>, caller |-> ""]

NewSampler(var_a, var_b, num_comparisons, thresh, caller) ==
    [nc_var_a |-> var_a, nc_var_b |-> var_b,
     num_comparisons |-> num_comparisons, thresh |-> thresh, trials |-> <<>>,
     num_mismatches |-> 0, reported |-> <<>>, caller |-> caller]

SamplerHandles ==
    {Handle("compare_multiple_random_values", "a"), Handle("compare_multiple_random_values", "b")}

-----------------------------------------------------------------------------
(* The comparison pass: compare() and run_through_comparisons()            *)

inputs == <<nc_a, nc_b, comparison_var_group, comparison_var_name, show_chunks, show_attributes>>

NoArgument == VarProperties("", 0, <<>>, <<>>, <<>>, NoAttributes)

\* the state before compare() is called.  A variable name without a group
\* name is not read by the pass, so it is drawn only together with a group.
Init ==
    /\ nc_a \in Datasets("a")
    /\ nc_b \in Datasets("b")
    /\ comparison_var_group \in {""} \cup Groups
    /\ comparison_var_name \in {""} \cup VarNames
    /\ comparison_var_group = "" => comparison_var_name = ""
    /\ show_chunks \in BOOLEAN
    /\ show_attributes \in BOOLEAN
    /\ pc = "start"
    /\ exc = ""
    /\ printed = <<>>
    /\ rows = <<>>
    /\ handles = {}
    /\ dim_attempts = NoAttempts
    /\ lookup_failed = ""
    /\ sampler = IdleSampler
    /\ totals = NoTotals
    /\ exported = [csv |-> "no", xlsx |-> "no"]
    /\ v_a = NoArgument
    /\ v_b = NoArgument

\* compare(), lines 65-78: the paths are validated, the Outputter is entered
\* and the two file names are printed
compare_begin ==
    /\ pc = "start"
    /\ \E paths_exist \in BOOLEAN :
         IF paths_exist
         THEN /\ printed' = printed \o <<"File A:", "File B:">>
              /\ rows' = side_by_side(rows, " ", <<"nc_a">>, <<"nc_b">>, FALSE, FALSE)
              /\ pc' = "dims_a"
              /\ exc' = exc
         ELSE /\ pc' = "raised"
              /\ exc' = "PathNotFound"
              /\ UNCHANGED <<printed, rows>>
    /\ UNCHANGED <<inputs, handles, dim_attempts, lookup_failed, sampler, totals, exported, v_a, v_b>>

\* lines 116-119: the dimensions of file A, then of file B, then their diff
RootDimensions ==
    /\ pc \in {"dims_a", "dims_b"}
    /\ \E first \in DimOutcomes, second \in DimOutcomes :
         LET r == _get_dims(first, second)
             heading == IF pc = "dims_a" THEN <<"Root-level Dimensions:">> ELSE <<>>
         IN  /\ dim_attempts' = [file |-> IF pc = "dims_a" THEN "a" ELSE "b", attempts |-> r.attempts]
             /\ printed' = printed \o heading
             /\ IF r.raised # ""
                THEN /\ pc' = "raised"
                     /\ exc' = r.raised
                     /\ rows' = rows
                ELSE /\ exc' = exc
                     /\ pc' = IF pc = "dims_a" THEN "dims_b" ELSE "groups"
                     /\ rows' = IF pc = "dims_a" THEN rows
                                ELSE lists_diff(rows, DimsOf("a"), DimsOf("b"))
    /\ UNCHANGED <<inputs, handles, lookup_failed, sampler, totals, exported, v_a, v_b>>

\* lines 122-125: the groups of both files and their diff
ShowGroups ==
    /\ pc = "groups"
    /\ LET ga == _get_groups(nc_a, "a", handles)
           gb == _get_groups(nc_b, "b", ga.handles)
       IN  /\ printed' = Append(printed, "Groups:")
           /\ rows' = lists_diff(rows, ga.groups_list, gb.groups_list)
           /\ handles' = gb.handles
    /\ pc' = "select"
    /\ dim_attempts' = NoAttempts
    /\ UNCHANGED <<inputs, exc, lookup_failed, sampler, totals, exported, v_a, v_b>>

\* lines 127-136 and 153-156: the variables of the selected group
SelectedGroup ==
    /\ pc = "select"
    /\ IF comparison_var_group = ""
       THEN /\ printed' = Append(printed, "No variable group selected for comparison. Skipping..")
            /\ pc' = "all_variables"
            /\ UNCHANGED <<rows, handles, exc, lookup_failed>>
       ELSE LET ra == _get_vars(nc_a, "a", comparison_var_group)
                rb == _get_vars(nc_b, "b", comparison_var_group)
                heading == <<"Variables within specified group">>
            IN  IF ra.raised # ""
                THEN /\ printed' = printed \o heading \o ra.lines
                     /\ handles' = handles \cup ra.opened
                     /\ pc' = "raised"
                     /\ exc' = ra.raised
                     /\ lookup_failed' = "group"
                     /\ rows' = rows
                ELSE IF rb.raised # ""
                THEN /\ printed' = printed \o heading \o rb.lines
                     /\ handles' = handles \cup ra.opened \cup rb.opened
                     /\ pc' = "raised"
                     /\ exc' = rb.raised
                     /\ lookup_failed' = "group"
                     /\ rows' = rows
                ELSE /\ handles' = handles \cup ra.opened \cup rb.opened
                     /\ rows' = lists_diff(rows, ra.vlist, rb.vlist)
                     /\ UNCHANGED <<exc, lookup_failed>>
                     /\ IF comparison_var_name # ""
                        THEN /\ pc' = "sample_values"
                             /\ printed' = printed \o heading
                        ELSE /\ pc' = "all_variables"
                             /\ printed' = printed \o heading
                                   \o <<"No variable selected for comparison. Skipping..">>
    /\ UNCHANGED <<inputs, dim_attempts, sampler, totals, exported, v_a, v_b>>

\* what the KeyError handler prints, lines 149-152
ErrorBlock == <<"Error when comparing values for variable", "traceback", "\\n">>

\* lines 137-141 and 148-152: the sample values of the selected variable in
\* both files; a KeyError is reported and the pass goes on
SampleValues ==
    /\ pc = "sample_values"
    /\ LET pa == _print_sample_values(nc_a, "a", comparison_var_group, comparison_var_name)
           pb == _print_sample_values(nc_b, "b", comparison_var_group, comparison_var_name)
           raised == IF pa.raised # "" THEN pa.raised ELSE pb.raised
           opened == IF pa.raised # "" THEN pa.opened ELSE pa.opened \cup pb.opened
           lines == IF pa.raised # "" THEN pa.lines ELSE pa.lines \o pb.lines
           heading == <<"Sample values within specified variable">>
       IN  /\ handles' = handles \cup opened
           /\ IF raised = ""
              THEN /\ printed' = printed \o heading \o lines
                   /\ pc' = "random_values"
                   /\ UNCHANGED <<exc, lookup_failed>>
              ELSE IF raised = "KeyError"
              THEN /\ printed' = printed \o heading \o lines \o ErrorBlock
                   /\ pc' = "all_variables"
                   /\ lookup_failed' = "variable"
                   /\ exc' = exc
              ELSE /\ printed' = printed \o heading \o lines
                   /\ pc' = "raised"
                   /\ exc' = raised
                   /\ lookup_failed' = "group"
    /\ UNCHANGED <<inputs, rows, dim_attempts, sampler, totals, exported, v_a, v_b>>

\* lines 144-146 and 168-174: both datasets are opened and the variables to
\* sample are read off them; AttributeError when a dataset has no such
\* attribute, which the KeyError handler does not catch
RandomValues ==
    /\ pc = "random_values"
    /\ printed' = Append(printed, "Checking multiple random values within specified variable")
    /\ IF /\ ds_varname \in DOMAIN nc_a.groups[comparison_var_group]
          /\ ds_varname \in DOMAIN nc_b.groups[comparison_var_group]
       THEN /\ sampler' = NewSampler(NcVar(nc_a, comparison_var_group, ds_varname),
                                     NcVar(nc_b, comparison_var_group, ds_varname),
                                     PassTrials, DefaultThresh, "pass")
            /\ handles' = handles \cup SamplerHandles
            /\ pc' = "trials"
            /\ exc' = exc
       ELSE /\ handles' = WithExit(handles \cup SamplerHandles, "compare_multiple_random_values")
            /\ pc' = "raised"
            /\ exc' = "AttributeError"
            /\ sampler' = sampler
    /\ UNCHANGED <<inputs, rows, dim_attempts, lookup_failed, totals, exported, v_a, v_b>>

\* lines 175-181: one trial, its glyph and the tally
RandomTrial ==
    /\ pc = "trials"
    /\ Len(sampler.trials) < sampler.num_comparisons
    /\ \E rand_index \in 1..Len(sampler.nc_var_a.values) :
         LET match_result == _match_random_value(sampler.nc_var_a, sampler.nc_var_b,
                                                 rand_index, sampler.thresh)
             glyph == print_char(match_result.result)
         IN  IF match_result.raised # ""
             THEN /\ pc' = "raised"
                  /\ exc' = match_result.raised
                  /\ handles' = WithExit(handles, "compare_multiple_random_values")
                  /\ UNCHANGED <<printed, sampler>>
             ELSE /\ printed' = printed \o match_result.lines \o <<glyph>>
                  /\ sampler' = [sampler EXCEPT
                         !.trials = Append(@, [value_a |-> match_result.value_a,
                                               value_b |-> match_result.value_b,
                                               result |-> match_result.result,
                                               glyph |-> glyph]),
                         !.num_mismatches = IF glyph = "x" THEN @ + 1 ELSE @]
                  /\ UNCHANGED <<pc, exc, handles>>
    /\ UNCHANGED <<inputs, rows, dim_attempts, lookup_failed, totals, exported, v_a, v_b>>

\* lines 183-190: the tally is reported, "Done." is printed and the with
\* block is left
RandomEnd ==
    /\ pc = "trials"
    /\ Len(sampler.trials) = sampler.num_comparisons
    /\ printed' = printed \o <<Message(sampler.num_mismatches), "Done.">>
    /\ sampler' = [sampler EXCEPT !.reported = <<sampler.num_mismatches, sampler.num_comparisons>>]
    /\ handles' = WithExit(handles, "compare_multiple_random_values")
    /\ pc' = IF sampler.caller = "pass" THEN "all_variables" ELSE "returned"
    /\ UNCHANGED <<inputs, exc, rows, dim_attempts, lookup_failed, totals, exported, v_a, v_b>>

\* lines 158-159: compare_two_nc_files over both files.  The sets of common
\* variables and groups are iterated in an order Python does not fix.
AllVariables ==
    /\ pc = "all_variables"
    /\ \E var_order \in Orders(VarNames), group_order \in Orders(Groups), str_zero_pad \in BOOLEAN :
         LET opt == [show_chunks |-> show_chunks, show_attributes |-> show_attributes,
                     var_order |-> var_order, group_order |-> group_order,
                     str_zero_pad |-> str_zero_pad]
         IN  \E r \in {compare_two_nc_files(rows, nc_a, nc_b, opt)} :
             /\ rows' = r.rows
             /\ totals' = r.totals
             /\ handles' = WithExit(handles \cup {Handle("compare_two_nc_files", "a"),
                                                 Handle("compare_two_nc_files", "b")},
                                    "compare_two_nc_files")
             /\ IF r.raised # ""
                THEN pc' = "raised" /\ exc' = r.raised
                ELSE pc' = "export" /\ exc' = exc
    /\ printed' = Append(printed, "All variables:")
    /\ UNCHANGED <<inputs, dim_attempts, lookup_failed, sampler, exported, v_a, v_b>>

\* compare(), lines 89-94: the requested exports are written, then "Done."
\* is printed; an export that cannot be written raises
Finish ==
    /\ pc = "export"
    /\ \E file_csv \in BOOLEAN, file_xlsx \in BOOLEAN, csv_ok \in BOOLEAN, xlsx_ok \in BOOLEAN :
         LET csv == IF ~file_csv THEN "no" ELSE IF csv_ok THEN "written" ELSE "failed"
             xlsx == IF ~file_xlsx \/ csv = "failed" THEN "no"
                     ELSE IF xlsx_ok THEN "written" ELSE "failed"
         IN  /\ exported' = [csv |-> csv, xlsx |-> xlsx]
             /\ IF csv = "failed" \/ xlsx = "failed"
                THEN /\ pc' = "raised"
                     /\ exc' = "ExportWriteError"
                     /\ printed' = printed
                ELSE /\ pc' = "done"
                     /\ exc' = exc
                     /\ printed' = Append(printed, "Done.")
    /\ UNCHANGED <<inputs, rows, handles, dim_attempts, lookup_failed, sampler, totals, v_a, v_b>>

Next ==
    \/ compare_begin
    \/ RootDimensions
    \/ ShowGroups
    \/ SelectedGroup
    \/ SampleValues
    \/ RandomValues
    \/ RandomTrial
    \/ RandomEnd
    \/ AllVariables
    \/ Finish

Spec == Init /\ [][Next]_vars

-----------------------------------------------------------------------------
(* _print_var_properties_side_by_side on its own: the properties of a      *)
(* variable of any attributes, or of no variable, on either side           *)

\* a variable "t" with the given attributes and scale factor
PropsDataset(attrs, scale_factor) ==
    [variables |-> [n \in {"t"} |-> Variable("float32", "(3,)", "contiguous", attrs, scale_factor, <<>>)],
     groups |-> <<>>]

\* what _var_properties returns for a variable, and for the empty name
PropsArguments ==
    {_var_properties(PropsDataset(m, sf), "t", "") : m \in AttrMaps, sf \in {0, 2}}
    \cup {_var_properties(PropsDataset(<<>>, 0), "", "")}

InitProps ==
    /\ v_a \in PropsArguments
    /\ v_b \in PropsArguments
    /\ show_chunks \in BOOLEAN
    /\ show_attributes \in BOOLEAN
    /\ nc_a = PropsDataset(<<>>, 0)
    /\ nc_b = PropsDataset(<<>>, 0)
    /\ comparison_var_group = ""
    /\ comparison_var_name = ""
    /\ pc = "props"
    /\ exc = ""
    /\ printed = <<>>
    /\ rows = <<>>
    /\ handles = {}
    /\ dim_attempts = NoAttempts
    /\ lookup_failed = ""
    /\ sampler = IdleSampler
    /\ totals = NoTotals
    /\ exported = [csv |-> "no", xlsx |-> "no"]

\* one call of _print_var_properties_side_by_side(out, v_a, v_b, ...)
PrintVarProperties ==
    /\ pc = "props"
    /\ \E r \in {_print_var_properties_side_by_side(rows, v_a, v_b, show_chunks, show_attributes)} :
           /\ rows' = r.rows
           /\ exc' = r.raised
           /\ pc' = IF r.raised # "" THEN "raised" ELSE "returned"
    /\ UNCHANGED <<inputs, printed, handles, dim_attempts, lookup_failed, sampler, totals, exported, v_a, v_b>>

NextProps == PrintVarProperties

SpecProps == InitProps /\ [][NextProps]_vars

-----------------------------------------------------------------------------
(* compare_multiple_random_values on its own, for any number of trials,    *)
(* and _match_random_value on its own, for any threshold                   *)

\* the largest number of trials
MaxTrials == 3

\* the largest threshold, in units of 1e-6
MaxThresh == 2

\* the flattened values of a variable of one or two elements
ValueArrays == UNION { [1..n -> Values] : n \in {1, 2} }

\* the variables sampled: any two arrays (the second may be the shorter)
SampledVars == {[name |-> ds_varname, values |-> v] : v \in ValueArrays}

\* everything the sampler does not touch
IdleRest ==
    /\ nc_a = PropsDataset(<<>>, 0)
    /\ nc_b = PropsDataset(<<>>, 0)
    /\ comparison_var_group = ""
    /\ comparison_var_name = ""
    /\ show_chunks = FALSE
    /\ show_attributes = FALSE
    /\ exc = ""
    /\ printed = <<>>
    /\ rows = <<>>
    /\ dim_attempts = NoAttempts
    /\ lookup_failed = ""
    /\ totals = NoTotals
    /\ exported = [csv |-> "no", xlsx |-> "no"]
    /\ v_a = NoArgument
    /\ v_b = NoArgument

\* compare_multiple_random_values(out, nc_a, nc_b, groupname, num_comparisons)
\* after line 174: both datasets are open, no trial is made yet
InitSample ==
    /\ \E var_a \in SampledVars, var_b \in SampledVars, num_comparisons \in 0..MaxTrials :
         sampler = NewSampler(var_a, var_b, num_comparisons, DefaultThresh, "test")
    /\ handles = SamplerHandles
    /\ pc = "trials"
    /\ IdleRest

NextSample ==
    \/ RandomTrial
    \/ RandomEnd

SpecSample == InitSample /\ [][NextSample]_vars

\* _match_random_value(out, nc_var_a, nc_var_b, thresh) before the call
InitMatch ==
    /\ \E var_a \in SampledVars, var_b \in SampledVars, thresh \in 0..MaxThresh :
         sampler = NewSampler(var_a, var_b, 1, thresh, "test")
    /\ handles = {}
    /\ pc = "match"
    /\ IdleRest

\* one call of _match_random_value: the index is drawn, the two values are
\* read and classified
MatchRandomValue ==
    /\ pc = "match"
    /\ \E rand_index \in 1..Len(sampler.nc_var_a.values) :
         \E match_result \in {_match_random_value(sampler.nc_var_a, sampler.nc_var_b,
                                                  rand_index, sampler.thresh)} :
             /\ printed' = printed \o match_result.lines
             /\ exc' = match_result.raised
             /\ pc' = IF match_result.raised # "" THEN "raised" ELSE "matched"
             /\ sampler' = [sampler EXCEPT
                    !.trials = Append(@, [value_a |-> match_result.value_a,
                                          value_b |-> match_result.value_b,
                                          result |-> match_result.result,
                                          glyph |-> ""])]
    /\ UNCHANGED <<inputs, rows, handles, dim_attempts, lookup_failed, totals, exported, v_a, v_b>>

NextMatch == MatchRandomValue

SpecMatch == InitMatch /\ [][NextMatch]_vars

-----------------------------------------------------------------------------
(* Properties                                                              *)

\* the positions of the row log that hold a row of the given label
RowsLabelled(label) == {i \in 1..Len(rows) : rows[i].label = label}

\* the positions of the live stream that hold a progress glyph
Glyphs == {i \in 1..Len(printed) : printed[i] \in {".", "n", "x"}}

\* C1: when the lookup of the selected group or of the selected variable
\* fails, the failure does not end the pass: the pass is not ended by the
\* lookup's exception, and once the all-variables phase is over the totals
\* are emitted.
C1_LookupFailureDoesNotAbort ==
    lookup_failed # "" =>
        /\ pc = "raised" => exc \in {"ValueError", "ExportWriteError"}
        /\ pc \in {"export", "done"} => totals.emitted

\* C2: the two variables handed to _match_random_value by the pass are the
\* variable of the supplied name, in file A and in file B.
C2_SamplesTheNamedVariable ==
    sampler.caller = "pass" =>
        /\ sampler.nc_var_a.name = comparison_var_name
        /\ sampler.nc_var_b.name = comparison_var_name

\* C3: one trial is Indeterminate (None) if either value is NaN, otherwise a
\* Match (True) exactly when |value_b - value_a| <= thresh, otherwise a
\* Mismatch (False); the mismatch lines are printed on Mismatch only.
C3_Classification ==
    pc = "matched" =>
        LET t == sampler.trials[1]
            either_nan == t.value_a.nan \/ t.value_b.nan
            close == Abs(t.value_b.v - t.value_a.v) <= sampler.thresh
        IN  /\ t.result = "None" <=> either_nan
            /\ t.result = "True" <=> (~either_nan /\ close)
            /\ t.result = "False" <=> (~either_nan /\ ~close)
            /\ printed = IF t.result = "False" THEN MismatchLines ELSE <<>>

\* a pair whose difference equals a positive threshold is a Match
C3_Witness ==
    /\ pc = "matched"
    /\ sampler.thresh > 0
    /\ ~sampler.trials[1].value_a.nan
    /\ ~sampler.trials[1].value_b.nan
    /\ Abs(sampler.trials[1].value_b.v - sampler.trials[1].value_a.v) = sampler.thresh
    /\ sampler.trials[1].result = "True"

\* C4: one glyph is printed per trial made, "." for True, "n" for None and
\* "x" for False; when compare_multiple_random_values returns, the glyphs
\* are num_comparisons many and the tally reported is the number of trials
\* classified False, which is the number of "x" glyphs.
C4_GlyphsAndTally ==
    sampler.caller = "test" /\ pc \in {"trials", "returned"} =>
        LET glyphs == SelectSeq(printed, LAMBDA c : c \in {".", "n", "x"})
            mismatches == {i \in 1..Len(sampler.trials) : sampler.trials[i].result = "False"}
        IN  /\ Len(glyphs) = Len(sampler.trials)
            /\ \A i \in 1..Len(glyphs) :
                  glyphs[i] = CASE sampler.trials[i].result = "True" -> "."
                                [] sampler.trials[i].result = "None" -> "n"
                                [] OTHER -> "x"
            /\ pc = "returned" =>
                  /\ Len(glyphs) = sampler.num_comparisons
                  /\ sampler.reported = <<Cardinality(mismatches), sampler.num_comparisons>>
                  /\ Cardinality(mismatches) = Cardinality({i \in Glyphs : printed[i] = "x"})

\* a run of three trials that saw one mismatch and NaNs
C4_Witness ==
    /\ sampler.caller = "test"
    /\ pc = "returned"
    /\ sampler.num_comparisons = 3
    /\ sampler.reported = <<1, 3>>
    /\ Cardinality(Glyphs) = 3
    /\ \E i \in Glyphs : printed[i] = "n"
    /\ \E i \in Glyphs : printed[i] = "x"

\* the root and the groups common to both files
Namespaces == {""} \cup (DOMAIN nc_a.groups \cap DOMAIN nc_b.groups)

\* the variables of a file in the root ("") or in a group
VarsOf(dataset, ns) ==
    IF ns = "" THEN DOMAIN dataset.variables ELSE DOMAIN dataset.groups[ns]

\* the variables of a file in the root and in the common groups
VarsIn(dataset) == {<<ns, v>> : ns \in Namespaces, v \in VarNames} \cap
                   UNION {{<<ns, v>> : v \in VarsOf(dataset, ns)} : ns \in Namespaces}

\* C5: the totals emitted by compare_two_nc_files are the sums, over the
\* root and the groups common to both files, of the shared, the left-only
\* and the right-only variables; groups of one file only add nothing.
C5_Totals ==
    totals.emitted =>
        /\ totals.both = Cardinality(VarsIn(nc_a) \cap VarsIn(nc_b))
        /\ totals.left = Cardinality(VarsIn(nc_a) \ VarsIn(nc_b))
        /\ totals.right = Cardinality(VarsIn(nc_b) \ VarsIn(nc_a))
        /\ totals.left + totals.both = Cardinality(VarsIn(nc_a))
        /\ totals.right + totals.both = Cardinality(VarsIn(nc_b))
        /\ rows[Len(rows) - 1] = Row("Total number of shared items:",
                                     StrOfInt(totals.both), StrOfInt(totals.both), FALSE, FALSE)
        /\ rows[Len(rows)] = Row("Total number of non-shared items:",
                                 StrOfInt(totals.left), StrOfInt(totals.right), FALSE, FALSE)

\* totals over a non-empty root and a common group, with a group that only
\* file A has and variables that only one file has
C5_Witness ==
    /\ totals.emitted
    /\ DOMAIN nc_a.groups = {"g1", "g2"}
    /\ DOMAIN nc_b.groups = {"g2"}
    /\ DOMAIN nc_a.variables # {}
    /\ DOMAIN nc_b.variables = {}
    /\ DOMAIN nc_a.groups["g2"] # DOMAIN nc_b.groups["g2"]
    /\ totals.both >= 1
    /\ totals.left >= 3

\* C6: _get_dims makes at most two attempts; the first decodes times; a
\* second one is made, without decoding times, exactly when the first fails
\* with the time-decoding error; the function raises exactly when its last
\* attempt failed, with that attempt's error.
C6_SingleRetry ==
    dim_attempts.file # "" =>
        LET attempts == dim_attempts.attempts
            last == attempts[Len(attempts)]
        IN  /\ Len(attempts) \in {1, 2}
            /\ attempts[1].decode_times
            /\ Len(attempts) = 2 <=> attempts[1].outcome = "ValueError decode_times"
            /\ Len(attempts) = 2 => ~attempts[2].decode_times
            /\ last.outcome = "ok" <=> pc # "raised"
            /\ pc = "raised" => exc = ErrType(last.outcome)

\* the first fetch failed on the times and the retry succeeded
C6_Witness ==
    /\ dim_attempts.file = "b"
    /\ Len(dim_attempts.attempts) = 2
    /\ dim_attempts.attempts[2].outcome = "ok"
    /\ pc = "groups"

\* C7: no handle is open once the operation that opened it is over: only
\* compare_multiple_random_values holds handles across steps, while its
\* trials run.
C7_HandlesClosed ==
    \A h \in handles : h.op = "compare_multiple_random_values" /\ pc = "trials"

\* C8: with attributes shown, a variable with attributes {"units": "m"} in A
\* and absent in B gives the row "units:", "m", "", highlighted as a
\* difference, and no error.
C8_AbsentInB ==
    ( /\ pc \in {"returned", "raised"}
      /\ show_attributes
      /\ v_a.attributes = Attributes([k \in {"units"} |-> StrAttr("m")])
      /\ v_b = NoArgument )
    => /\ pc = "returned"
       /\ \E i \in 1..Len(rows) : rows[i] = Row("units:", <<"m">>, <<>>, TRUE, FALSE)

C10_DoneIsTerminal ==
    \A i \in 1..Len(printed) :
        printed[i] = "Done." => (pc = "done" /\ i = Len(printed))

\* C11: for an attribute key on both sides whose values are lists that differ
\* only beyond the 5th element, the two values passed to the attribute row
\* are different, so the row shows the difference.
C11_TruncationKeepsDifference ==
    ( /\ pc \in {"returned", "raised"}
      /\ show_attributes
      /\ ~v_a.attributes.none
      /\ ~v_b.attributes.none
      /\ "flag_values" \in DOMAIN v_a.attributes.map
      /\ "flag_values" \in DOMAIN v_b.attributes.map
      /\ v_a.attributes.map["flag_values"] # v_b.attributes.map["flag_values"]
      /\ Head5(v_a.attributes.map["flag_values"].items)
             = Head5(v_b.attributes.map["flag_values"].items) )
    => /\ pc = "returned"
       /\ \E i \in RowsLabelled("flag_values:") : rows[i].hl /\ rows[i].a # rows[i].b
====
